---- MODULE Spec2Model ----
(***************************************************************************)
(* Model of the image backend (src/server.js): the Image collection with   *)
(* its 24 hour TTL index, the uploads/ directory written by multer, and    *)
(* the routes POST /upload, GET /download/:code and the static file route. *)
(* Each request is a process that moves through the asynchronous steps of  *)
(* its handler; the environment interleaves with it at every await.        *)
(***************************************************************************)
EXTENDS Integers, Sequences, FiniteSets, TLC

\* ---------------------------------------------------------------- bounds

\* Files multer may write in one run (each gets a fresh uuidv4 name).
MaxUploads == 2

\* Clock ticks in one run; a tick is one TTL.
MaxTicks == 1

\* Random bytes drawn independently for one uuid; the draw repeats after them.
SeedLen == 4

\* ------------------------------------------------------------- constants

\* imageSchema.createdAt.expires: seconds after which a document expires.
TTL == 86400

\* Date.now() is observed a TTL apart.
TickSeconds == TTL

\* Requests in flight; the store's TTL task, the clock and out-of-band removals
\* run between the awaits of a request.
Reqs == {"r1"}

\* Values uuidv4().slice(0, 8) can take.
Codes == {"c1", "c2"}

\* File contents a caller may send; "" is a file part of zero bytes.
Bytes == {"helloworld", "otherbytes", ""}

\* A multipart body without the 'image' file part.
NoFile == "<no file part>"

NoBytes == "<no bytes>"

NoCode == "<no code>"

\* file.filename values: 0 stands for "req.file is undefined".
NoName == 0

Names == 1..(MaxUploads + 1)

NoImage == [code |-> NoCode, filename |-> NoName, createdAt |-> 0]

VARIABLES
    images,    \* the Image collection, in natural (insertion) order
    files,     \* the uploads/ directory: storage name -> bytes
    nextName,  \* the next fresh uuidv4() storage name
    now,       \* Date.now(), in seconds
    req,       \* per request in flight: route, position in the handler, locals
    last,      \* the request answered in this step (Idle if none): locals, response
    uploads,   \* history: the successful uploads, in order
    removed,   \* history: storage names whose blob was removed out-of-band
    gen,       \* the code generator: position, random bytes, uuid, code
    users,     \* the User collection, in natural (insertion) order
    areq,      \* per signup/login request in flight: position, locals, response
    granted    \* history: the signups answered 201, in order

vars == <<images, files, nextName, now, req, last, uploads, removed,
          gen, users, areq, granted>>

\* The image store and its requests.
imageVars == <<images, files, nextName, now, req, last, uploads, removed>>

\* The User collection and its requests.
authVars == <<users, areq, granted>>

\* ------------------------------------------------------------- responses

Response(status, body, bytes, disposition) ==
    [status |-> status, body |-> body, bytes |-> bytes, disposition |-> disposition]

NoResponse == Response(0, "", NoBytes, NoName)

\* res.status(400).json({ error: 'No file uploaded' })
NoFileUploaded == Response(400, "No file uploaded", NoBytes, NoName)

\* res.json({ code })
CodeReturned(code) == Response(200, code, NoBytes, NoName)

\* res.status(500).json({ error: 'Upload failed due to server error' })
UploadFailed == Response(500, "Upload failed due to server error", NoBytes, NoName)

\* multer passes its error to next(err): express answers 500 itself.
MulterError == Response(500, "Internal Server Error", NoBytes, NoName)

\* res.status(404).send('Invalid or expired code')
InvalidOrExpiredCode == Response(404, "Invalid or expired code", NoBytes, NoName)

\* res.status(404).send('Image expired or missing')
ArtifactMissing == Response(404, "Image expired or missing", NoBytes, NoName)

\* res.download(filePath): the bytes, with
\* Content-Disposition: attachment; filename="<basename of filePath>"
DownloadSent(name) == Response(200, "", files[name], name)

\* res.download(filePath) when the file vanished: the send error goes to next(err).
SendNotFound == Response(404, "Not Found", NoBytes, NoName)

\* express.static('uploads'): the bytes of uploads/<name>, no disposition.
StaticSent(name) == Response(200, "", files[name], NoName)

\* express.static falls through and express answers 404.
StaticNotFound == Response(404, "Cannot GET", NoBytes, NoName)

\* ----------------------------------------------------------------- state

Idle ==
    [op |-> "none", pc |-> "idle", code |-> NoCode, payload |-> NoFile,
     file |-> NoName, image |-> NoImage, blobExists |-> FALSE,
     startedAt |-> 0, seen |-> 0, gone |-> {}, resp |-> NoResponse]

\* The code generator before a call.
GenIdle == [pc |-> "idle", rnds |-> <<>>, uuid |-> <<>>, code |-> <<>>]

\* Signup and login requests in flight.
AuthReqs == {"a1", "a2"}

NoAuthResponse == [status |-> 0, body |-> ""]

\* req.body.email / req.body.password left out.
NoEmail == ""

NoPassword == <<>>

NoUser == [email |-> NoEmail, password |-> NoPassword]

AuthIdle ==
    [op |-> "none", pc |-> "idle", email |-> NoEmail, password |-> NoPassword,
     hashed |-> NoPassword, user |-> NoUser, signed |-> FALSE,
     resp |-> NoAuthResponse]

Init ==
    /\ images = <<>>
    /\ files = <<>>
    /\ nextName = 1
    /\ now = 0
    /\ req = [r \in Reqs |-> Idle]
    /\ last = Idle
    /\ uploads = <<>>
    /\ removed = {}
    /\ gen = GenIdle
    /\ users = <<>>
    /\ areq = [a \in AuthReqs |-> AuthIdle]
    /\ granted = <<>>

\* No answer is being written: the event loop is free to run a callback.
Quiet == last = Idle

\* A new request can be taken on r.
Free(r) == Quiet /\ req[r].pc = "idle"

\* Request r of route op waits at position pc.
At(r, op, pc) == Quiet /\ req[r].op = op /\ req[r].pc = pc

\* The derived property of a document: its TTL has elapsed at time t.
isExpired(doc, t) == t - doc.createdAt >= TTL

\* Indexes of the documents matching { code: c }, in natural order.
Matching(c) == {i \in 1..Len(images) : images[i].code = c}

Min(S) == CHOOSE x \in S : \A y \in S : x <= y

\* Image.findOne({}) : the lookup without its { code: c } filter.
FindOneAnyCode(c) ==
    IF images = <<>> THEN NoImage ELSE images[1]

\* Image.findOne({ code: c }): the first matching document, or null.
FindOne(c) ==
    IF Matching(c) = {} THEN NoImage ELSE images[Min(Matching(c))]

RemoveAt(s, i) == [j \in 1..(Len(s) - 1) |-> IF j < i THEN s[j] ELSE s[j + 1]]

\* Image.deleteOne({ code: c }): removes the first matching document, if any.
DeleteOne(c) ==
    IF Matching(c) = {} THEN images ELSE RemoveAt(images, Min(Matching(c)))

\* fs.existsSync(path.join(__dirname, 'uploads', name))
ExistsSync(name) == name \in DOMAIN files

IssuedCodes == {uploads[i].code : i \in 1..Len(uploads)}

\* ------------------------------------------------------------ POST /upload

Begin(op) == [Idle EXCEPT !.op = op]

\* The response is sent: the request leaves the server.
Answer(r, rec, resp) ==
    /\ req' = [req EXCEPT ![r] = Idle]
    /\ last' = [rec EXCEPT !.pc = "done", !.resp = resp]

\* The request waits at an await.
Await(r, rec) ==
    /\ req' = [req EXCEPT ![r] = rec]
    /\ UNCHANGED last

\* multer finds no 'image' file part: req.file stays undefined, nothing is written.
MulterNoFile(r) ==
    /\ Free(r)
    /\ Await(r, [Begin("upload") EXCEPT !.pc = "handler"])
    /\ UNCHANGED <<images, files, nextName, now, uploads, removed, gen, users, areq, granted>>

\* A storage name that is not fresh: every part is written to the same file.
MulterWritesOneName(r, bytes) ==
    /\ Free(r)
    /\ nextName <= MaxUploads
    /\ files' = (1 :> bytes) @@ files
    /\ nextName' = nextName + 1
    /\ Await(r, [Begin("upload") EXCEPT
                    !.pc = "handler", !.payload = bytes, !.file = 1])
    /\ UNCHANGED <<images, now, uploads, removed, gen, users, areq, granted>>

\* multer.diskStorage writes the part's bytes (zero bytes included) to
\* uploads/<uuidv4() + ext> and sets req.file before the handler runs.
MulterWrites(r, bytes) ==
    /\ Free(r)
    /\ nextName <= MaxUploads
    /\ files' = files @@ (nextName :> bytes)
    /\ nextName' = nextName + 1
    /\ Await(r, [Begin("upload") EXCEPT
                    !.pc = "handler", !.payload = bytes, !.file = nextName])
    /\ UNCHANGED <<images, now, uploads, removed, gen, users, areq, granted>>

\* A write failure that goes unreported: the handler runs with req.file set
\* although no file was written.
MulterWriteFailsUnreported(r, bytes) ==
    /\ Free(r)
    /\ nextName <= MaxUploads
    /\ nextName' = nextName + 1
    /\ Await(r, [Begin("upload") EXCEPT
                    !.pc = "handler", !.payload = bytes, !.file = nextName])
    /\ UNCHANGED <<images, files, now, uploads, removed, gen, users, areq, granted>>

\* The write fails (disk full, permission denied): multer removes what it wrote
\* and calls next(err); the route handler never runs.
MulterWriteFails(r, bytes) ==
    /\ Free(r)
    /\ Answer(r, [Begin("upload") EXCEPT !.payload = bytes], MulterError)
    /\ UNCHANGED <<images, files, nextName, now, uploads, removed, gen, users, areq, granted>>

\* if (!file) return res.status(400).json({ error: 'No file uploaded' })
UploadNoFile(r) ==
    /\ At(r, "upload", "handler")
    /\ req[r].file = NoName
    /\ Answer(r, req[r], NoFileUploaded)
    /\ UNCHANGED <<images, files, nextName, now, uploads, removed, gen, users, areq, granted>>

\* code = uuidv4().slice(0, 8); new Image({ code, filename }).save(); res.json({ code })
UploadSave(r, code) ==
    /\ At(r, "upload", "handler")
    /\ req[r].file # NoName
    /\ images' = Append(images,
                    [code |-> code, filename |-> req[r].file, createdAt |-> now])
    /\ uploads' = Append(uploads,
                    [code |-> code, name |-> req[r].file,
                     bytes |-> req[r].payload, at |-> now])
    /\ Answer(r, [req[r] EXCEPT !.code = code], CodeReturned(code))
    /\ UNCHANGED <<files, nextName, now, removed, gen, users, areq, granted>>

\* save() rejects: the catch block answers 500; the written file stays.
UploadSaveFails(r) ==
    /\ At(r, "upload", "handler")
    /\ req[r].file # NoName
    /\ Answer(r, req[r], UploadFailed)
    /\ UNCHANGED <<images, files, nextName, now, uploads, removed, gen, users, areq, granted>>

\* ------------------------------------------------------ GET /download/:code

\* const image = await Image.findOne({ code: req.params.code });
\* if (!image) return res.status(404).send('Invalid or expired code');
DownloadFind(r, code) ==
    /\ Free(r)
    /\ LET image == FindOne(code)
           rec == [Begin("download") EXCEPT
                      !.code = code, !.image = image,
                      !.startedAt = now, !.seen = Len(uploads),
                      !.gone = removed]
       IN  IF image = NoImage
           THEN Answer(r, rec, InvalidOrExpiredCode)
           ELSE Await(r, [rec EXCEPT !.pc = "check"])
    /\ UNCHANGED <<images, files, nextName, now, uploads, removed, gen, users, areq, granted>>

\* if (!fs.existsSync(filePath)) { await Image.deleteOne({ code }); return 404 }
DownloadMissing(r) ==
    /\ At(r, "download", "check")
    /\ ~ExistsSync(req[r].image.filename)
    /\ images' = DeleteOne(req[r].code)
    /\ Answer(r, [req[r] EXCEPT !.blobExists = FALSE], ArtifactMissing)
    /\ UNCHANGED <<files, nextName, now, uploads, removed, gen, users, areq, granted>>

\* A download that refreshes createdAt of the documents of its code (sliding expiry).
DownloadStartTouches(r) ==
    /\ At(r, "download", "check")
    /\ ExistsSync(req[r].image.filename)
    /\ images' = [i \in 1..Len(images) |->
                     IF images[i].code = req[r].code
                     THEN [images[i] EXCEPT !.createdAt = now]
                     ELSE images[i]]
    /\ Await(r, [req[r] EXCEPT !.pc = "send", !.blobExists = TRUE])
    /\ UNCHANGED <<files, nextName, now, uploads, removed, gen, users, areq, granted>>

\* res.download(filePath): the file is opened and streamed asynchronously.
DownloadStart(r) ==
    /\ At(r, "download", "check")
    /\ ExistsSync(req[r].image.filename)
    /\ Await(r, [req[r] EXCEPT !.pc = "send", !.blobExists = TRUE])
    /\ UNCHANGED <<images, files, nextName, now, uploads, removed, gen, users, areq, granted>>

\* res.status(500).send('Server error')
ServerError == Response(500, "Server error", NoBytes, NoName)

\* A stream error that is thrown into the handler's catch block.
DownloadSendThrows(r) ==
    /\ At(r, "download", "send")
    /\ Answer(r, req[r], IF ExistsSync(req[r].image.filename)
                         THEN DownloadSent(req[r].image.filename)
                         ELSE ServerError)
    /\ UNCHANGED <<images, files, nextName, now, uploads, removed, gen, users, areq, granted>>

\* The stream of res.download: the bytes, or the send error when the file is gone.
DownloadSend(r) ==
    /\ At(r, "download", "send")
    /\ Answer(r, req[r], IF ExistsSync(req[r].image.filename)
                         THEN DownloadSent(req[r].image.filename)
                         ELSE SendNotFound)
    /\ UNCHANGED <<images, files, nextName, now, uploads, removed, gen, users, areq, granted>>

\* --------------------------------------------- express.static('uploads')

\* GET /<name>: serves uploads/<name> if it exists, whatever the collection holds.
StaticGet(r, name) ==
    /\ Free(r)
    /\ Answer(r, [Begin("static") EXCEPT !.file = name, !.startedAt = now],
              IF ExistsSync(name) THEN StaticSent(name) ELSE StaticNotFound)
    /\ UNCHANGED <<images, files, nextName, now, uploads, removed, gen, users, areq, granted>>

\* ------------------------------------------------------------- environment

\* Date.now() advances. Only differences to a createdAt are ever read, so the
\* clock is followed from the first stored record on.
Tick ==
    /\ Quiet
    /\ uploads # <<>>
    /\ now < MaxTicks * TickSeconds
    /\ now' = now + TickSeconds
    /\ UNCHANGED <<images, files, nextName, req, last, uploads, removed, gen, users, areq, granted>>

\* The TTL index (expires: 86400): the store's background task removes the
\* documents whose createdAt is TTL or more in the past; files are not touched.
TTLMonitor ==
    /\ Quiet
    /\ \E i \in 1..Len(images) : isExpired(images[i], now)
    /\ images' = SelectSeq(images, LAMBDA doc : ~isExpired(doc, now))
    /\ UNCHANGED <<files, nextName, now, req, last, uploads, removed, gen, users, areq, granted>>

\* The blob of a stored document is removed from uploads/ by something other
\* than the server.
BlobRemoved(name) ==
    /\ Quiet
    /\ ExistsSync(name)
    /\ \E i \in 1..Len(images) : images[i].filename = name
    /\ files' = [n \in DOMAIN files \ {name} |-> files[n]]
    /\ removed' = removed \cup {name}
    /\ UNCHANGED <<images, nextName, now, req, last, uploads, gen, users, areq, granted>>

\* ----------------------------------------------------------- specification

\* Node runs one callback at a time: the answer of a handler is on the wire
\* before the next callback of any request runs.
Delivered ==
    /\ last # Idle
    /\ last' = Idle
    /\ UNCHANGED <<images, files, nextName, now, req, uploads, removed, gen, users, areq, granted>>

Next ==
    \/ \E r \in Reqs : MulterNoFile(r)
    \/ \E r \in Reqs, bytes \in Bytes : MulterWrites(r, bytes)
    \/ \E r \in Reqs, bytes \in Bytes : MulterWriteFails(r, bytes)
    \/ \E r \in Reqs : UploadNoFile(r)
    \/ \E r \in Reqs, code \in Codes : UploadSave(r, code)
    \/ \E r \in Reqs : UploadSaveFails(r)
    \/ \E r \in Reqs, code \in Codes : DownloadFind(r, code)
    \/ \E r \in Reqs : DownloadMissing(r)
    \/ \E r \in Reqs : DownloadStart(r)
    \/ \E r \in Reqs : DownloadSend(r)
    \/ \E r \in Reqs, name \in Names : StaticGet(r, name)
    \/ Tick
    \/ TTLMonitor
    \/ \E name \in Names : BlobRemoved(name)
    \/ Delivered

Spec == Init /\ [][Next]_vars

\* ------------------------------------------------- metadata store failures

\* Image.findOne rejects (store unreachable): the catch block answers 500.
DownloadFindFails(r, code) ==
    /\ Free(r)
    /\ Answer(r, [Begin("download") EXCEPT
                     !.code = code, !.startedAt = now, !.seen = Len(uploads),
                     !.gone = removed],
              ServerError)
    /\ UNCHANGED <<images, files, nextName, now, uploads, removed, gen, users, areq, granted>>

\* Image.deleteOne rejects: the catch block answers 500, the document stays.
DownloadDeleteFails(r) ==
    /\ At(r, "download", "check")
    /\ ~ExistsSync(req[r].image.filename)
    /\ Answer(r, [req[r] EXCEPT !.blobExists = FALSE], ServerError)
    /\ UNCHANGED <<images, files, nextName, now, uploads, removed, gen, users, areq, granted>>

NextFaults ==
    \/ Next
    \/ \E r \in Reqs, code \in Codes : DownloadFindFails(r, code)
    \/ \E r \in Reqs : DownloadDeleteFails(r)

SpecFaults == Init /\ [][NextFaults]_vars

\* ------------------------------------------------- uuidv4().slice(0, 8)

\* Octets of a uuid.
UuidBytes == 16

\* Values a random octet takes in this model.
SampleBytes == {0, 58, 159, 255}

\* The digits of the lower-case hexadecimal notation uuid prints octets in.
HexDigits ==
    <<"0", "1", "2", "3", "4", "5", "6", "7", "8", "9", "a", "b", "c", "d", "e", "f">>

\* byteToHex[b]: the two digits of octet b.
ByteToHex(b) == <<HexDigits[(b \div 16) + 1], HexDigits[(b % 16) + 1]>>

\* rng(): 16 random octets.
Rng(seed) == [i \in 1..UuidBytes |-> seed[((i - 1) % Len(seed)) + 1]]

\* v4 sets the version in octet 6 and the variant in octet 8 (counted from 0).
SetVersion(rnds) ==
    [i \in 1..Len(rnds) |->
        IF i = 7 THEN (rnds[i] % 16) + 64
        ELSE IF i = 9 THEN (rnds[i] % 64) + 128
        ELSE rnds[i]]

RECURSIVE StringifyFrom(_, _)
StringifyFrom(b, i) ==
    IF i > Len(b) THEN <<>>
    ELSE ByteToHex(b[i])
         \o (IF i \in {4, 6, 8, 10} THEN <<"-">> ELSE <<>>)
         \o StringifyFrom(b, i + 1)

\* stringify(rnds): xxxxxxxx-xxxx-xxxx-xxxx-xxxxxxxxxxxx
Stringify(b) == StringifyFrom(b, 1)

\* s.slice(from, to + 1): one character too many.
SliceInclusive(s, from, to) ==
    SubSeq(s, from + 1, IF to + 1 < Len(s) THEN to + 1 ELSE Len(s))

\* s.slice(from, to): the characters at positions from .. to - 1, counted from 0.
Slice(s, from, to) ==
    SubSeq(s, from + 1, IF to < Len(s) THEN to ELSE Len(s))

\* uuidv4() draws its random octets.
GenRandom(seed) ==
    /\ gen.pc = "idle"
    /\ gen' = [gen EXCEPT !.pc = "rnds", !.rnds = Rng(seed)]
    /\ UNCHANGED <<imageVars, authVars>>

\* uuidv4() returns the string form of the octets.
GenUuid ==
    /\ gen.pc = "rnds"
    /\ gen' = [gen EXCEPT !.pc = "uuid", !.uuid = Stringify(SetVersion(gen.rnds))]
    /\ UNCHANGED <<imageVars, authVars>>

\* const code = uuidv4().slice(0, 8)
GenCode ==
    /\ gen.pc = "uuid"
    /\ gen' = [gen EXCEPT !.pc = "code", !.code = Slice(gen.uuid, 0, 8)]
    /\ UNCHANGED <<imageVars, authVars>>

\* The code is handed to the upload handler; the generator is ready again.
GenReturn ==
    /\ gen.pc = "code"
    /\ gen' = GenIdle
    /\ UNCHANGED <<imageVars, authVars>>

NextCode ==
    \/ \E seed \in [1..SeedLen -> SampleBytes] : GenRandom(seed)
    \/ GenUuid
    \/ GenCode
    \/ GenReturn

SpecCode == Init /\ [][NextCode]_vars

\* ------------------------------------------------------ signup and login

\* Email addresses, as the schema stores them (lower case, trimmed).
Emails == {"a@x.io", "b@x.io"}

\* Passwords a caller may send; a string is a sequence so that a hash, which
\* is built from the string it hashes, is a string as well.
Passwords == {<<"hunter22">>, <<"letmein1">>}

\* Salts bcrypt may generate.
Salts == {"s1", "s2"}

\* bcrypt.hash(data, 10): the salted hash string of data.
Hash(data, salt) == <<"$2b$10$", salt>> \o data

\* bcrypt.compare(data, encrypted): encrypted is a hash of exactly data.
Compare(data, encrypted) ==
    /\ Len(encrypted) >= 2
    /\ encrypted[1] = "$2b$10$"
    /\ SubSeq(encrypted, 3, Len(encrypted)) = data

\* res.status(400).json({ message: 'Email and password required' })
Required == [status |-> 400, body |-> "Email and password required"]

\* res.status(400).json({ message: 'User already exists' })
UserExists == [status |-> 400, body |-> "User already exists"]

\* res.status(201).json({ token: uuidv4() })
SignedUp == [status |-> 201, body |-> "token"]

\* res.status(500).json({ message: 'Signup failed' })
SignupFailed == [status |-> 500, body |-> "Signup failed"]

\* res.status(401).json({ message: 'Invalid credentials' })
InvalidCredentials == [status |-> 401, body |-> "Invalid credentials"]

\* res.json({ token: uuidv4() })
LoggedIn == [status |-> 200, body |-> "token"]

\* Indexes of the users matching { email: e }, in natural order.
UsersOf(e) == {i \in 1..Len(users) : users[i].email = e}

\* User.findOne({ email: e }): the first matching user, or null.
FindUser(e) == IF UsersOf(e) = {} THEN NoUser ELSE users[Min(UsersOf(e))]

\* A collection without the unique index on email.
NoUniqueIndex(e) == FALSE

\* email: { unique: true }: an insert of a second user with email e fails.
DuplicateKey(e) == UsersOf(e) # {}

\* userSchema.pre('save'): a new document has its password modified, so the
\* hook replaces it by its hash under a fresh salt.
PreSave(doc, salt) == [doc EXCEPT !.password = Hash(doc.password, salt)]

AuthFree(a) == areq[a].pc = "idle"

AuthAt(a, op, pc) == areq[a].op = op /\ areq[a].pc = pc

AuthAnswer(a, resp) ==
    areq' = [areq EXCEPT ![a] = [@ EXCEPT !.pc = "done", !.hashed = NoPassword,
                                          !.user = NoUser, !.resp = resp]]

\* The signups answered 201 with email e and password p.
Granted(e, p) == {i \in 1..Len(granted) : granted[i] = [email |-> e, password |-> p]}

AuthBegin(op, e, p) ==
    [AuthIdle EXCEPT !.op = op, !.email = e, !.password = p,
                     !.signed = Granted(e, p) # {}]

\* POST /api/signup without email or password.
SignupRequired(a, e, p) ==
    /\ AuthFree(a)
    /\ e = NoEmail \/ p = NoPassword
    /\ areq' = [areq EXCEPT ![a] = [AuthBegin("signup", e, p) EXCEPT
                                       !.pc = "done", !.resp = Required]]
    /\ UNCHANGED <<imageVars, gen, users, granted>>

\* POST /api/signup: the handler asks for an existing user.
SignupBegin(a, e, p) ==
    /\ AuthFree(a)
    /\ e # NoEmail /\ p # NoPassword
    /\ areq' = [areq EXCEPT ![a] = [AuthBegin("signup", e, p) EXCEPT !.pc = "find"]]
    /\ UNCHANGED <<imageVars, gen, users, granted>>

\* const existing = await User.findOne({ email }): a user is found.
SignupExists(a) ==
    /\ AuthAt(a, "signup", "find")
    /\ FindUser(areq[a].email) # NoUser
    /\ AuthAnswer(a, UserExists)
    /\ UNCHANGED <<imageVars, gen, users, granted>>

\* No user is found: the handler goes on to hash the password.
SignupFind(a) ==
    /\ AuthAt(a, "signup", "find")
    /\ FindUser(areq[a].email) = NoUser
    /\ areq' = [areq EXCEPT ![a].pc = "hash"]
    /\ UNCHANGED <<imageVars, gen, users, granted>>

\* const hashedPassword = await bcrypt.hash(password, 10)
SignupHash(a, salt) ==
    /\ AuthAt(a, "signup", "hash")
    /\ areq' = [areq EXCEPT ![a].pc = "save",
                            ![a].hashed = Hash(areq[a].password, salt)]
    /\ UNCHANGED <<imageVars, gen, users, granted>>

\* await new User({ email, password: hashedPassword }).save(): the pre-save
\* hook runs, then the insert, which the unique index may refuse.
SignupSave(a, salt) ==
    /\ AuthAt(a, "signup", "save")
    /\ LET doc == PreSave([email |-> areq[a].email, password |-> areq[a].hashed], salt)
       IN  IF DuplicateKey(doc.email)
           THEN /\ AuthAnswer(a, SignupFailed)
                /\ UNCHANGED <<users, granted>>
           ELSE /\ users' = Append(users, doc)
                /\ granted' = Append(granted, [email |-> areq[a].email,
                                               password |-> areq[a].password])
                /\ AuthAnswer(a, SignedUp)
    /\ UNCHANGED <<imageVars, gen>>

\* POST /api/login without email or password.
LoginRequired(a, e, p) ==
    /\ AuthFree(a)
    /\ e = NoEmail \/ p = NoPassword
    /\ areq' = [areq EXCEPT ![a] = [AuthBegin("login", e, p) EXCEPT
                                       !.pc = "done", !.resp = Required]]
    /\ UNCHANGED <<imageVars, gen, users, granted>>

\* POST /api/login: the handler asks for the user.
LoginBegin(a, e, p) ==
    /\ AuthFree(a)
    /\ e # NoEmail /\ p # NoPassword
    /\ areq' = [areq EXCEPT ![a] = [AuthBegin("login", e, p) EXCEPT !.pc = "find"]]
    /\ UNCHANGED <<imageVars, gen, users, granted>>

\* const user = await User.findOne({ email })
LoginFind(a) ==
    /\ AuthAt(a, "login", "find")
    /\ IF FindUser(areq[a].email) = NoUser
       THEN AuthAnswer(a, InvalidCredentials)
       ELSE areq' = [areq EXCEPT ![a].pc = "compare",
                                 ![a].user = FindUser(areq[a].email)]
    /\ UNCHANGED <<imageVars, gen, users, granted>>

\* const isMatch = await bcrypt.compare(password, user.password)
LoginCompare(a) ==
    /\ AuthAt(a, "login", "compare")
    /\ AuthAnswer(a, IF Compare(areq[a].password, areq[a].user.password)
                     THEN LoggedIn ELSE InvalidCredentials)
    /\ UNCHANGED <<imageVars, gen, users, granted>>

\* The answer is on the wire: the request leaves the server.
AuthDelivered(a) ==
    /\ areq[a].pc = "done"
    /\ areq' = [areq EXCEPT ![a] = AuthIdle]
    /\ UNCHANGED <<imageVars, gen, users, granted>>

NextAuth ==
    \/ \E a \in AuthReqs, e \in Emails \cup {NoEmail}, p \in Passwords \cup {NoPassword} :
           SignupRequired(a, e, p)
    \/ \E a \in AuthReqs, e \in Emails, p \in Passwords : SignupBegin(a, e, p)
    \/ \E a \in AuthReqs : SignupExists(a)
    \/ \E a \in AuthReqs : SignupFind(a)
    \/ \E a \in AuthReqs, salt \in Salts : SignupHash(a, salt)
    \/ \E a \in AuthReqs, salt \in Salts : SignupSave(a, salt)
    \/ \E a \in AuthReqs, e \in Emails \cup {NoEmail}, p \in Passwords \cup {NoPassword} :
           LoginRequired(a, e, p)
    \/ \E a \in AuthReqs, e \in Emails, p \in Passwords : LoginBegin(a, e, p)
    \/ \E a \in AuthReqs : LoginFind(a)
    \/ \E a \in AuthReqs : LoginCompare(a)
    \/ \E a \in AuthReqs : AuthDelivered(a)

SpecAuth == Init /\ [][NextAuth]_vars

\* ------------------------------------------------------------------ claims

Range(s) == {s[i] : i \in 1..Len(s)}

\* The successful uploads that returned code c before the answered download began.
IssuedBefore(c) == {i \in 1..last.seen : uploads[i].code = c}

\* The storage name whose bytes the answered request was served.
Served == IF last.op = "download" THEN last.image.filename ELSE last.file

\* C1: a Download of a code whose record was created TTL or more before the
\* request is answered not-found, purged or not, blob present or not.
C1_ExpiredIsNotFound ==
    (/\ last.op = "download"
     /\ IssuedBefore(last.code) # {}
     /\ \A i \in IssuedBefore(last.code) : last.startedAt - uploads[i].at >= TTL)
    => last.resp.status = 404

\* C2: at most one active (non-expired) record exists for a code.
C2_AtMostOneActivePerCode ==
    \A c \in Codes :
        Cardinality({i \in 1..Len(images) :
                        images[i].code = c /\ ~isExpired(images[i], now)}) <= 1

\* C3: a Download of the code of a successful non-empty upload, begun before
\* its TTL elapsed and with its blob not removed, returns exactly its bytes.
C3_DownloadReturnsUploadedBytes ==
    last.op = "download" =>
        \A i \in IssuedBefore(last.code) :
            (/\ uploads[i].bytes # ""
             /\ last.startedAt - uploads[i].at < TTL
             /\ uploads[i].name \notin removed)
            => (last.resp.status = 200 /\ last.resp.bytes = uploads[i].bytes)

\* C4: a Download of a code with an active record whose blob was removed
\* out-of-band before the request is answered not-found.
C4_OrphanIsNotFound ==
    (/\ last.op = "download"
     /\ \E i \in IssuedBefore(last.code) :
            /\ uploads[i].name \in last.gone
            /\ last.startedAt - uploads[i].at < TTL)
    => last.resp.status = 404

\* C5: an Upload with a missing or zero-byte file is answered with the
\* validation error and creates neither a blob nor a record (the case of the
\* disk write itself failing set aside).
C5_EmptyUploadRejected ==
    (/\ last.op = "upload"
     /\ last.payload \in {NoFile, ""}
     /\ last.resp # MulterError)
    => (/\ last.resp = NoFileUploaded
        /\ last.file = NoName
        /\ \A i \in 1..Len(images) : images[i].filename # last.file)

\* Some step of a Download of code c is taken.
DownloadStepOf(c) ==
    \/ last'.op = "download" /\ last'.code = c
    \/ \E r \in Reqs : /\ req'[r] # req[r]
                       /\ req'[r].op = "download"
                       /\ req'[r].code = c

\* C6: a Download of a code no successful Upload has returned is answered
\* 'Invalid or expired code' and changes neither the collection nor the files.
C6_NeverIssuedIsInvalid ==
    [][\A c \in Codes \ IssuedCodes :
          DownloadStepOf(c) =>
              /\ UNCHANGED <<images, files>>
              /\ last' # Idle
              /\ last'.resp = InvalidOrExpiredCode]_vars

C6_Witness ==
    /\ last.op = "download"
    /\ last.code \notin IssuedCodes
    /\ last.resp = InvalidOrExpiredCode
    /\ images # <<>>

\* C7: no request is answered with the bytes of an artifact whose TTL has elapsed.
C7_NoBytesAfterTTL ==
    (last.op \in {"download", "static"} /\ last.resp.status = 200)
    => \A i \in 1..Len(uploads) :
           uploads[i].name = Served => now - uploads[i].at < TTL

\* C8: no response carries a storage name.
C8_StorageNameNeverExposed ==
    last.resp.disposition = NoName

\* C9: a Download of a code that never existed, that expired, or whose blob is
\* missing gets one and the same response.
C9_NotFoundIndistinguishable ==
    (last.op = "download" /\ ~last.blobExists)
    => last.resp = InvalidOrExpiredCode

\* C10: a record is created only with its blob already written, and a failed
\* blob write ends the Upload without a record.
C10_BlobWrittenBeforeRecord ==
    [][/\ \A doc \in Range(images') \ Range(images) :
              /\ doc.filename \in DOMAIN files
              /\ doc.filename \in DOMAIN files'
       /\ last'.resp = MulterError =>
              /\ UNCHANGED images
              /\ \A r \in Reqs : req[r] = Idle /\ req'[r] = Idle]_vars

C10_Witness ==
    /\ last.op = "upload"
    /\ last.resp = CodeReturned(last.code)
    /\ ExistsSync(last.file)
    /\ \E i \in 1..Len(images) :
           images[i].filename = last.file /\ images[i].code = last.code

\* C11: a successful Upload never returns a code that an earlier upload
\* returned and that has since expired or lost its blob.
C11_DeadCodeNeverReissued ==
    (last.op = "upload" /\ last.resp = CodeReturned(last.code))
    => \A i \in 1..(Len(uploads) - 1) :
           uploads[i].code = last.code
           => (now - uploads[i].at < TTL /\ uploads[i].name \notin removed)

\* No request is in flight and no answer is being written.
Quiescent == Quiet /\ \A r \in Reqs : req[r] = Idle

\* The live records that reference storage name n.
LiveRecordsOf(n) ==
    {i \in 1..Len(images) : images[i].filename = n /\ ~isExpired(images[i], now)}

\* C12: between requests, every blob stored by a successful upload is
\* referenced by exactly one live record.
C12_BlobsOneToOneWithLiveRecords ==
    Quiescent =>
        \A i \in 1..Len(uploads) :
            ExistsSync(uploads[i].name)
            => Cardinality(LiveRecordsOf(uploads[i].name)) = 1

\* C13: any two distinct records have different storage names.
C13_NoSharedBlob ==
    \A i, j \in 1..Len(images) :
        i # j => images[i].filename # images[j].filename

C13_Witness ==
    /\ Len(images) >= 2
    /\ images[1].code = images[2].code
    /\ images[1].filename # images[2].filename

\* A step of a Download that does not end in a not-found answer.
HappyDownloadStep ==
    \/ last'.op = "download" /\ last'.resp.status = 200
    \/ \E r \in Reqs : req'[r] # req[r] /\ req'[r].op = "download"

\* C14: a Download that finds its record and its blob changes neither the
\* collection (createdAt included) nor the files.
C14_HappyDownloadMutatesNothing ==
    [][HappyDownloadStep => UNCHANGED <<images, files>>]_vars

C14_Witness ==
    /\ last.op = "download"
    /\ last.resp.status = 200
    /\ now > last.image.createdAt
    /\ last.image \in Range(images)
    /\ ExistsSync(last.image.filename)

\* The bytes that were uploaded under storage name n.
UploadedBytes(n) == {uploads[i].bytes : i \in {j \in 1..Len(uploads) : uploads[j].name = n}}

\* C16: a Download racing the TTL task or the removal of its blob ends with
\* the complete uploaded bytes or with a not-found answer, nothing else.
C16_RaceEndsInBytesOrNotFound ==
    last.op = "download" =>
        \/ last.resp.status = 404 /\ last.resp.bytes = NoBytes
        \/ last.resp.status = 200 /\ last.resp.bytes \in UploadedBytes(last.image.filename)

C16_Witness ==
    /\ last.op = "download"
    /\ last.blobExists
    /\ ~ExistsSync(last.image.filename)
    /\ last.resp.status = 404

\* C15: every Upload ends in a code, the validation error or the upload
\* failure, and every Download in the bytes or a not-found answer, store
\* failures included.
C15_OutcomesWithinTaxonomy ==
    /\ last.op = "upload" =>
           last.resp \in {NoFileUploaded, UploadFailed} \cup {CodeReturned(c) : c \in Codes}
    /\ last.op = "download" => last.resp.status \in {200, 404}

\* The symbols a code can be made of: every digit some octet prints as.
CodeAlphabet == UNION {Range(ByteToHex(b)) : b \in 0..255}

\* C17 as stated: a code has exactly 8 characters, drawn from an alphabet of
\* 36 symbols.
C17_EightOfThirtySix ==
    gen.pc = "code" =>
        /\ Len(gen.code) = 8
        /\ Range(gen.code) \subseteq CodeAlphabet
        /\ Cardinality(CodeAlphabet) = 36

HexSymbols ==
    {"0", "1", "2", "3", "4", "5", "6", "7", "8", "9", "a", "b", "c", "d", "e", "f"}

\* C17: every code is a string of exactly 8 characters, each one of the 16
\* lower-case hexadecimal digits: the generator draws from 16^8 codes.
C17_EightHexDigits ==
    /\ CodeAlphabet = HexSymbols
    /\ Cardinality(CodeAlphabet) = 16
    /\ gen.pc = "code" =>
           /\ Len(gen.code) = 8
           /\ Range(gen.code) \subseteq HexSymbols

C17_Witness ==
    /\ gen.pc = "code"
    /\ gen.code = <<"9", "f", "3", "a", "0", "0", "f", "f">>
    /\ Len(gen.uuid) = 36

\* C18: a login with the email and password of an earlier successful signup
\* succeeds with a token.
C18_LoginAfterSignupSucceeds ==
    \A a \in AuthReqs :
        (areq[a].op = "login" /\ areq[a].pc = "done" /\ areq[a].signed)
        => areq[a].resp = LoggedIn

\* C19: at most one user record exists per email, and at most one signup per
\* email was answered with a token.
C19_OneUserPerEmail ==
    /\ \A i, j \in 1..Len(users) : i # j => users[i].email # users[j].email
    /\ \A i, j \in 1..Len(granted) : i # j => granted[i].email # granted[j].email

\* Two signups for one email both passed the existence check; one created the
\* user, the other was refused by the insert.
C19_Witness ==
    \E a \in AuthReqs :
        /\ areq[a].op = "signup" /\ areq[a].pc = "done"
        /\ areq[a].resp = SignupFailed
        /\ Cardinality(UsersOf(areq[a].email)) = 1
        /\ \E i \in 1..Len(granted) : granted[i].email = areq[a].email

====
